---- MODULE Spec2Model ----
(***************************************************************************)
(* A model of nft_geoip.py: the command-line program that turns a DB-IP    *)
(* country CSV into the nftables map file chinaip-ipv4.nft.                *)
(*                                                                         *)
(* Python strings are sequences of characters; a character is a one-letter *)
(* TLA+ string, or "U+XXXX" for a non-ASCII code point.  A dict is the     *)
(* sequence of its <<key, value>> items in insertion order.                *)
(***************************************************************************)
EXTENDS Integers, Sequences, FiniteSets, TLC

\* Largest number of rows the CSV reader yields in a run.
MaxRows == 3

\* Largest number of items of a mapping handed to format_dict on its own.
MaxItems == 2

VARIABLES
  argv,          \* the command line: [file, download, dir]
  pc,            \* position of the main program
  args,          \* the parsed arguments: [blocks, download, dir]
  fs,            \* the file system: path -> [exists, data]
  io,            \* the network and file operations performed so far
  response,      \* the HTTP response r: [status_code, body]
  rows,          \* the rows csv.reader has yielded so far
  chinaip_dict,  \* the dict make_chinaip_dict builds, then the normalized one
  exit,          \* "running", "0", or the message/exception that ended the run
  fd_in,         \* format_dict on its own: the mapping given
  fd_out         \* format_dict on its own: results of successive applications

vars == <<argv, pc, args, fs, io, response, rows, chinaip_dict, exit,
          fd_in, fd_out>>

main_vars == <<argv, pc, args, fs, io, response, rows, chinaip_dict, exit>>

fd_vars == <<fd_in, fd_out>>

----------------------------------------------------------------------------
(* Strings *)

Digits == {"0", "1", "2", "3", "4", "5", "6", "7", "8", "9"}

DigitVal(c) ==
  CASE c = "0" -> 0 [] c = "1" -> 1 [] c = "2" -> 2 [] c = "3" -> 3
    [] c = "4" -> 4 [] c = "5" -> 5 [] c = "6" -> 6 [] c = "7" -> 7
    [] c = "8" -> 8 [] c = "9" -> 9

\* A local variable: value is computed once, then used as x in body(x).
with(value, body(_)) == CHOOSE r \in { body(x) : x \in {value} } : TRUE

\* str.join over a list of strings
join(sep, strs) ==
  with(strs, LAMBDA ss :
    LET joined[i \in 0..Len(ss)] ==
          IF i = 0 THEN <<>>
          ELSE IF i = 1 THEN ss[1]
          ELSE joined[i - 1] \o sep \o ss[i]
    IN joined[Len(ss)])

\* str.split(sep) for a one-character separator
split(text, sep) ==
  with(text, LAMBDA t :
    with(<<0>> \o SelectSeq([i \in 1..Len(t) |-> i], LAMBDA i : t[i] = sep)
              \o <<Len(t) + 1>>,
         LAMBDA cuts :
           [k \in 1..(Len(cuts) - 1) |-> SubSeq(t, cuts[k] + 1, cuts[k + 1] - 1)]))

\* str.replace(old, new) for a one-character old
replace(text, old, new) ==
  with(text, LAMBDA t :
    join(<<>>, [i \in 1..Len(t) |-> IF t[i] = old THEN new ELSE <<t[i]>>]))

\* str.lower / str.upper of one character
lower_char(c) ==
  CASE c = "A" -> "a" [] c = "C" -> "c" [] c = "N" -> "n"
    [] c = "S" -> "s" [] c = "U" -> "u" [] OTHER -> c

upper_char(c) ==
  CASE c = "a" -> "A" [] c = "c" -> "C" [] c = "n" -> "N"
    [] c = "s" -> "S" [] c = "u" -> "U" [] OTHER -> c

lower(text) ==
  with(text, LAMBDA t : [i \in 1..Len(t) |-> lower_char(t[i])])

upper(text) ==
  with(text, LAMBDA t : [i \in 1..Len(t) |-> upper_char(t[i])])

\* unicodedata.normalize('NFKD', .) of one character: U+00E9 (e acute)
\* decomposes to e + U+0301, U+FF11 (fullwidth one) to 1.
NFKD_char(c) ==
  CASE c = "U+00E9" -> <<"e", "U+0301">>
    [] c = "U+FF11" -> <<"1">>
    [] OTHER -> <<c>>

NFKD(text) ==
  with(text, LAMBDA t : join(<<>>, [i \in 1..Len(t) |-> NFKD_char(t[i])]))

\* unicodedata.category(char): 'Mn' for the combining acute accent
category(c) == IF c = "U+0301" THEN "Mn" ELSE "other"

strip_accent(text) == SelectSeq(NFKD(text), LAMBDA char : category(char) # "Mn")

----------------------------------------------------------------------------
(* Dicts *)

keys(d) == [i \in 1..Len(d) |-> d[i][1]]

has_key(d, k) == \E i \in 1..Len(d) : d[i][1] = k

\* Variant of setitem: assigning to an existing key moves it to the end.
setitem_moves_last(d, k, v) ==
  Append(SelectSeq(d, LAMBDA item : item[1] # k), <<k, v>>)

\* d[k] = v: an existing key keeps its place, a new key goes last
setitem(d, k, v) ==
  IF has_key(d, k)
  THEN [i \in 1..Len(d) |-> IF d[i][1] = k THEN <<k, v>> ELSE d[i]]
  ELSE Append(d, <<k, v>>)

----------------------------------------------------------------------------
(* format_dict, check_ipv4 *)

normalize(text) ==
  replace(replace(replace(replace(lower(strip_accent(text)),
          " ", <<"_">>), "[", <<>>), "]", <<>>), ",", <<>>)

\* One iteration of the loop of format_dict: state is [exit, dict], the
\* exit message (or "running") and new_dict so far.
format_item(state, key, value) ==
  IF state.exit # "running" THEN state
  ELSE IF key # <<>> /\ value # <<>>
  THEN [state EXCEPT !.dict = setitem(@, normalize(key), normalize(value))]
  ELSE [state EXCEPT
          !.exit = "BUG: There is an empty string as key or value inside a dictionary"]

format_dict(dictionary) ==
  LET new_dict[i \in 0..Len(dictionary)] ==
        IF i = 0 THEN [exit |-> "running", dict |-> <<>>]
        ELSE with(new_dict[i - 1],
                  LAMBDA state : format_item(state, dictionary[i][1], dictionary[i][2]))
  IN new_dict[Len(dictionary)]

\* ipaddress.IPv4Address._parse_octet: no ValueError raised.  The leading
\* zero rule is that of Python 3.9.5 and later; no input row has a leading zero.
int10(s) ==
  LET int[i \in 0..Len(s)] ==
        IF i = 0 THEN 0 ELSE 10 * int[i - 1] + DigitVal(s[i])
  IN int[Len(s)]

parse_octet_ok(octet_str) ==
  /\ octet_str # <<>>
  /\ \A i \in 1..Len(octet_str) : octet_str[i] \in Digits
  /\ Len(octet_str) <= 3
  /\ ~(octet_str # <<"0">> /\ octet_str[1] = "0")
  /\ int10(octet_str) <= 255

check_ipv4(addr) ==
  /\ \A i \in 1..Len(addr) : addr[i] # "/"
  /\ LET octets == split(addr, ".")
     IN /\ Len(octets) = 4
        /\ \A i \in 1..4 : parse_octet_ok(octets[i])

----------------------------------------------------------------------------
(* Inputs: the command line, the file system, the CSV rows *)

CN == <<"C", "N">>

US == <<"U", "S">>

cn == <<"c", "n">>

ip_1_1_1_1 == <<"1", ".", "1", ".", "1", ".", "1">>

ip_2_2_2_2 == <<"2", ".", "2", ".", "2", ".", "2">>

ip_3_3_3_0 == <<"3", ".", "3", ".", "3", ".", "0">>

ip_3_3_3_255 == <<"3", ".", "3", ".", "3", ".", "2", "5", "5">>

ip6_A == <<":", ":", "A">>

ip6_a == <<":", ":", "a">>

\* What csv.reader can yield for one line: a list of fields.  The last two
\* are a line of four fields and a blank line (no field).
Rows ==
  { <<ip_1_1_1_1, ip_1_1_1_1, CN>>,
    <<ip_2_2_2_2, ip_2_2_2_2, US>>,
    <<ip_3_3_3_0, ip_3_3_3_255, CN>>,
    <<ip_1_1_1_1, ip6_A, CN>>,
    <<ip_1_1_1_1, ip6_a, CN>>,
    <<ip6_a, ip_1_1_1_1, CN>>,
    <<<<>>, <<>>, CN>>,
    <<ip_1_1_1_1, ip_1_1_1_1, CN, <<"x">>>>,
    <<>> }

\* --output-dir: not given, an existing directory (with and without the
\* trailing slash), a path that is no directory.
Dirs ==
  { <<>>, <<"o", "u", "t">>, <<"o", "u", "t", "/">>, <<"n", "o">> }

isdir(d) == d \in { <<"o", "u", "t">>, <<"o", "u", "t", "/">> }

FileNames == {"chinaip-ipv4.nft", "dbip.csv.gz", "dbip.csv"}

Paths == { <<>>, <<"o", "u", "t", "/">> } \X FileNames

absent == [exists |-> FALSE, data |-> <<>>]

\* The working directory holds the map file of an earlier run; out/ is empty.
fs0 ==
  [p \in Paths |->
     IF p = << <<>>, "chinaip-ipv4.nft" >>
     THEN [exists |-> TRUE, data |-> << <<"old">> >>]
     ELSE absent]

no_response == [status_code |-> 0, body |-> "none"]

----------------------------------------------------------------------------
(* make_chinaip_dict, make_lines, the text of the map file *)

range_key(net_entry) ==
  IF net_entry[1] = net_entry[2]
  THEN net_entry[1]
  ELSE join(<<"-">>, <<net_entry[1], net_entry[2]>>)

\* Variant of loop_body: the IPv4 check is made on network_last.
loop_body_checks_last(d, net_entry) ==
  LET alpha2 == net_entry[3]
  IN IF alpha2 # CN THEN d
     ELSE LET k == range_key(net_entry)
          IN IF check_ipv4(net_entry[2]) THEN setitem(d, k, alpha2) ELSE d

\* Variant of loop_body: the IPv4 check is left out.
loop_body_unchecked(d, net_entry) ==
  LET alpha2 == net_entry[3]
  IN IF alpha2 # CN THEN d
     ELSE setitem(d, range_key(net_entry), alpha2)

\* One iteration of the loop of make_chinaip_dict over a row of three fields.
loop_body(d, net_entry) ==
  LET alpha2 == net_entry[3]
  IN IF alpha2 # CN THEN d
     ELSE LET k == range_key(net_entry)
          IN IF check_ipv4(net_entry[1]) THEN setitem(d, k, alpha2) ELSE d

mark_156 == <<" ", ":", " ", "1", "5", "6">>

make_lines(dictionary) ==
  [i \in 1..Len(dictionary) |-> dictionary[i][1] \o mark_156]

elements_sep == <<",", "\n", "\t", "\t">>

\* The string write_chinaips joins for the element list.
elements_text(d) ==
  join(elements_sep,
       make_lines([i \in 1..Len(d) |-> <<d[i][1], upper(d[i][2])>>]))

header_1 == <<"# Generated by nft_geoip.py on ", "%a %b %d %H:%M %Y", "\n">>

header_2 ==
  <<"# IP Geolocation by DB-IP (https://db-ip.com) licensed under CC-BY-SA 4.0\n\n">>

map_head ==
  <<"map chinaip4 {\n", "\ttype ipv4_addr : mark\n", "\tflags interval\n",
    "\telements = {\n\t\t">>

----------------------------------------------------------------------------
(* The main program *)

path(name) == <<args.dir, name>>

Fail(message) ==
  /\ pc' = "exit"
  /\ exit' = message

Init ==
  /\ argv \in [file : {"None", "exists", "missing"},
               download : BOOLEAN,
               dir : Dirs]
  /\ pc = "parse_args"
  /\ args = [blocks |-> "None", download |-> FALSE, dir |-> <<>>]
  /\ fs = fs0
  /\ io = <<>>
  /\ response = no_response
  /\ rows = <<>>
  /\ chinaip_dict = <<>>
  /\ exit = "running"
  /\ fd_in = <<>>
  /\ fd_out = <<>>

\* parser.parse_args(): argparse.FileType('r') opens --file-address here and
\* ends the run with status 2 when it cannot.
ParseArgs ==
  /\ pc = "parse_args"
  /\ IF argv.file = "missing"
     THEN /\ io' = Append(io, <<"open_r_failed", "file-address">>)
          /\ Fail("argparse: can't open --file-address")
          /\ UNCHANGED args
     ELSE /\ io' = IF argv.file = "exists"
                   THEN Append(io, <<"open_r", "file-address">>)
                   ELSE io
          /\ args' = [blocks |-> IF argv.file = "exists" THEN "file-address" ELSE "None",
                      download |-> argv.download,
                      dir |-> argv.dir]
          /\ pc' = "check_dir"
          /\ UNCHANGED exit
  /\ UNCHANGED <<argv, fs, response, rows, chinaip_dict, fd_vars>>

\* Variant of CheckDir: a path that is no directory is replaced by the
\* working directory and the run goes on.
CheckDir_goes_on ==
  /\ pc = "check_dir"
  /\ args' = [args EXCEPT !.dir =
                IF ~isdir(args.dir) THEN <<>>
                ELSE IF args.dir[Len(args.dir)] # "/"
                THEN args.dir \o <<"/">> ELSE args.dir]
  /\ pc' = IF args.download THEN "download" ELSE "check_blocks"
  /\ UNCHANGED <<argv, fs, io, response, rows, chinaip_dict, exit, fd_vars>>

\* The output directory check.
CheckDir ==
  /\ pc = "check_dir"
  /\ IF args.dir = <<>>
     THEN /\ args' = [args EXCEPT !.dir = <<>>]
          /\ pc' = IF args.download THEN "download" ELSE "check_blocks"
          /\ UNCHANGED exit
     ELSE IF ~isdir(args.dir)
     THEN /\ Fail("Specified output directory does not exist or is not a directory")
          /\ UNCHANGED args
     ELSE /\ args' = [args EXCEPT !.dir =
                        IF args.dir[Len(args.dir)] # "/"
                        THEN args.dir \o <<"/">> ELSE args.dir]
          /\ pc' = IF args.download THEN "download" ELSE "check_blocks"
          /\ UNCHANGED exit
  /\ UNCHANGED <<argv, fs, io, response, rows, chinaip_dict, fd_vars>>

\* requests.get(url, stream=True): the server answers 200 with a gzip
\* archive, 200 with something else, or 404.
HttpGet ==
  /\ pc = "download"
  /\ \E r \in { [status_code |-> 200, body |-> "gzip"],
                [status_code |-> 200, body |-> "not gzip"],
                [status_code |-> 404, body |-> "not found"] } :
        response' = r
  /\ io' = Append(io, <<"GET", "dbip-country-lite-%Y-%m.csv.gz">>)
  /\ pc' = "status_code"
  /\ UNCHANGED <<argv, args, fs, rows, chinaip_dict, exit, fd_vars>>

\* The archive is saved on a 200 response; anything else ends the run.
SaveArchive ==
  /\ pc = "status_code"
  /\ IF response.status_code = 200
     THEN /\ fs' = [fs EXCEPT ![path("dbip.csv.gz")] =
                      [exists |-> TRUE, data |-> <<response.body>>]]
          /\ io' = Append(io, <<"open_w", "dbip.csv.gz">>)
          /\ pc' = "gunzip"
          /\ UNCHANGED exit
     ELSE /\ Fail("Error trying to download DB-IP lite geoip csv file. Bailing out...")
          /\ UNCHANGED <<fs, io>>
  /\ UNCHANGED <<argv, args, response, rows, chinaip_dict, fd_vars>>

\* gzip.open, copy to dbip.csv, remove the archive.  dbip.csv is created
\* before the first read of the archive, which is where bad data shows.
Gunzip ==
  /\ pc = "gunzip"
  /\ IF fs[path("dbip.csv.gz")].data = <<"gzip">>
     THEN /\ fs' = [fs EXCEPT ![path("dbip.csv")] =
                                 [exists |-> TRUE, data |-> <<"csv">>],
                              ![path("dbip.csv.gz")] = absent]
          /\ io' = io \o << <<"open_r", "dbip.csv.gz">>, <<"open_w", "dbip.csv">>,
                            <<"remove", "dbip.csv.gz">> >>
          /\ pc' = "reopen"
          /\ UNCHANGED exit
     ELSE /\ fs' = [fs EXCEPT ![path("dbip.csv")] = [exists |-> TRUE, data |-> <<>>]]
          /\ io' = io \o << <<"open_r", "dbip.csv.gz">>, <<"open_w", "dbip.csv">> >>
          /\ Fail("gzip.BadGzipFile")
  /\ UNCHANGED <<argv, args, response, rows, chinaip_dict, fd_vars>>

\* Variant of ReopenBlocks: a --file-address already open is kept.
ReopenBlocks_keeps_file ==
  /\ pc = "reopen"
  /\ args' = [args EXCEPT !.blocks = IF @ = "None" THEN "dbip.csv" ELSE @]
  /\ io' = Append(io, <<"open_r", "dbip.csv">>)
  /\ pc' = "check_blocks"
  /\ UNCHANGED <<argv, fs, response, rows, chinaip_dict, exit, fd_vars>>

\* args.blocks = open(args.dir+'dbip.csv', 'r', encoding='utf-8')
ReopenBlocks ==
  /\ pc = "reopen"
  /\ args' = [args EXCEPT !.blocks = "dbip.csv"]
  /\ io' = Append(io, <<"open_r", "dbip.csv">>)
  /\ pc' = "check_blocks"
  /\ UNCHANGED <<argv, fs, response, rows, chinaip_dict, exit, fd_vars>>

\* Variant of CheckBlocks: the output file is opened before the rows are read.
CheckBlocks_opens_output ==
  /\ pc = "check_blocks"
  /\ IF args.blocks = "None"
     THEN /\ Fail("Missing geoip address csv file. You can instead download it using --download.")
          /\ UNCHANGED <<fs, io>>
     ELSE /\ pc' = "make_chinaip_dict"
          /\ fs' = [fs EXCEPT ![path("chinaip-ipv4.nft")] =
                      [exists |-> TRUE, data |-> <<>>]]
          /\ io' = Append(io, <<"open_w", "chinaip-ipv4.nft">>)
          /\ UNCHANGED exit
  /\ chinaip_dict' = <<>>
  /\ UNCHANGED <<argv, args, response, rows, fd_vars>>

\* if not args.blocks: ... ; else make_chinaip_dict() starts with an empty dict
CheckBlocks ==
  /\ pc = "check_blocks"
  /\ IF args.blocks = "None"
     THEN Fail("Missing geoip address csv file. You can instead download it using --download.")
     ELSE /\ pc' = "make_chinaip_dict"
          /\ UNCHANGED exit
  /\ chinaip_dict' = <<>>
  /\ UNCHANGED <<argv, args, fs, io, response, rows, fd_vars>>

\* Variant of ReadRow: the first three fields of a longer row are used.
ReadRow_first_three ==
  /\ pc = "make_chinaip_dict"
  /\ Len(rows) < MaxRows
  /\ \E row \in Rows :
        /\ rows' = Append(rows, row)
        /\ IF Len(row) < 3
           THEN /\ Fail("TypeError: Expected 3 arguments")
                /\ UNCHANGED chinaip_dict
           ELSE /\ chinaip_dict' = loop_body(chinaip_dict, SubSeq(row, 1, 3))
                /\ UNCHANGED <<pc, exit>>
  /\ UNCHANGED <<argv, args, fs, io, response, fd_vars>>

\* Variant of ReadRow: a malformed row sends the run back to fetch the source again.
ReadRow_retries ==
  /\ pc = "make_chinaip_dict"
  /\ Len(rows) < MaxRows
  /\ \E row \in Rows :
        /\ rows' = Append(rows, row)
        /\ IF Len(row) # 3
           THEN /\ pc' = IF args.download THEN "download" ELSE "check_blocks"
                /\ UNCHANGED <<chinaip_dict, exit>>
           ELSE /\ chinaip_dict' = loop_body(chinaip_dict, row)
                /\ UNCHANGED <<pc, exit>>
  /\ UNCHANGED <<argv, args, fs, io, response, fd_vars>>

\* One iteration of the loop over csv.reader(args.blocks): NetworkEntry._make
\* raises TypeError unless the row has exactly three fields.
ReadRow ==
  /\ pc = "make_chinaip_dict"
  /\ Len(rows) < MaxRows
  /\ \E row \in Rows :
        /\ rows' = Append(rows, row)
        /\ IF Len(row) # 3
           THEN /\ Fail("TypeError: Expected 3 arguments")
                /\ UNCHANGED chinaip_dict
           ELSE /\ chinaip_dict' = loop_body(chinaip_dict, row)
                /\ UNCHANGED <<pc, exit>>
  /\ UNCHANGED <<argv, args, fs, io, response, fd_vars>>

\* The reader is exhausted: the loop ends and format_dict is called.
EndOfFile ==
  /\ pc = "make_chinaip_dict"
  /\ pc' = "format_dict"
  /\ UNCHANGED <<argv, args, fs, io, response, rows, chinaip_dict, exit, fd_vars>>

\* return format_dict(chinaip_dict)
FormatDict ==
  /\ pc = "format_dict"
  /\ IF format_dict(chinaip_dict).exit = "running"
     THEN /\ chinaip_dict' = format_dict(chinaip_dict).dict
          /\ pc' = "write_chinaips"
          /\ UNCHANGED exit
     ELSE /\ Fail(format_dict(chinaip_dict).exit)
          /\ UNCHANGED chinaip_dict
  /\ UNCHANGED <<argv, args, fs, io, response, rows, fd_vars>>

\* open(args.dir+'chinaip-ipv4.nft', 'w') creates or truncates the file
OpenOutput ==
  /\ pc = "write_chinaips"
  /\ fs' = [fs EXCEPT ![path("chinaip-ipv4.nft")] = [exists |-> TRUE, data |-> <<>>]]
  /\ io' = Append(io, <<"open_w", "chinaip-ipv4.nft">>)
  /\ pc' = "write_nft_header"
  /\ UNCHANGED <<argv, args, response, rows, chinaip_dict, exit, fd_vars>>

write(name, strings) ==
  fs' = [fs EXCEPT ![path(name)].data = @ \o strings]

WriteHeader ==
  /\ pc = "write_nft_header"
  /\ write("chinaip-ipv4.nft", <<header_1, header_2>>)
  /\ pc' = "write_elements"
  /\ UNCHANGED <<argv, args, io, response, rows, chinaip_dict, exit, fd_vars>>

WriteElements ==
  /\ pc = "write_elements"
  /\ write("chinaip-ipv4.nft", <<map_head, elements_text(chinaip_dict)>>)
  /\ pc' = "write_end"
  /\ UNCHANGED <<argv, args, io, response, rows, chinaip_dict, exit, fd_vars>>

\* The last three writes, the end of the with block, print('Done!')
CloseOutput ==
  /\ pc = "write_end"
  /\ write("chinaip-ipv4.nft", << <<"\n">>, <<"\t}\n">>, <<"}\n">> >>)
  /\ pc' = "done"
  /\ exit' = "0"
  /\ UNCHANGED <<argv, args, io, response, rows, chinaip_dict, fd_vars>>

Next ==
  \/ ParseArgs
  \/ CheckDir
  \/ HttpGet
  \/ SaveArchive
  \/ Gunzip
  \/ ReopenBlocks
  \/ CheckBlocks
  \/ ReadRow
  \/ EndOfFile
  \/ FormatDict
  \/ OpenOutput
  \/ WriteHeader
  \/ WriteElements
  \/ CloseOutput

Spec == Init /\ [][Next]_vars

\* The program is one thread of straight-line code: a step that can be
\* taken is taken.
FairSpec == Init /\ [][Next]_vars /\ WF_vars(Next)

----------------------------------------------------------------------------
(* format_dict on its own, applied to a mapping and then to its result *)

FormatStrings ==
  { CN, cn, ip6_A, <<",">>, <<"[", "]">>, <<"U+0301">>,
    <<"U+00E9", " ", "A">>, <<"e", "_", "a">> }

\* dicts of at most MaxItems items, keys and values non-empty, keys distinct
Mappings ==
  { m \in UNION { [1..n -> FormatStrings \X FormatStrings] : n \in 0..MaxItems } :
      \A i, j \in 1..Len(m) : i # j => m[i][1] # m[j][1] }

InitFormat ==
  /\ fd_in \in Mappings
  /\ fd_out = <<>>
  /\ argv = [file |-> "None", download |-> FALSE, dir |-> <<>>]
  /\ pc = "format_dict only"
  /\ args = [blocks |-> "None", download |-> FALSE, dir |-> <<>>]
  /\ fs = fs0
  /\ io = <<>>
  /\ response = no_response
  /\ rows = <<>>
  /\ chinaip_dict = <<>>
  /\ exit = "running"

ApplyFormatDict ==
  /\ Len(fd_out) < 2
  /\ IF fd_out = <<>> THEN TRUE ELSE fd_out[Len(fd_out)].exit = "running"
  /\ fd_out' = Append(fd_out,
                      format_dict(IF fd_out = <<>> THEN fd_in
                                  ELSE fd_out[Len(fd_out)].dict))
  /\ UNCHANGED <<fd_in, main_vars>>

NextFormat == ApplyFormatDict

SpecFormat == InitFormat /\ [][NextFormat]_vars

----------------------------------------------------------------------------
(* Properties *)

nft == fs[path("chinaip-ipv4.nft")]

\* The element list of a finished map file: the string of the fourth write.
output_elements == nft.data[4]

\* The entries of an element list, read back from its text: one per line,
\* without the indentation and the trailing comma.
entries_of(text) ==
  IF text = <<>> THEN <<>>
  ELSE LET lines == split(text, "\n")
       IN [i \in 1..Len(lines) |->
             LET unindented == IF i > 1 THEN SubSeq(lines[i], 3, Len(lines[i]))
                               ELSE lines[i]
             IN IF i < Len(lines)
                THEN SubSeq(unindented, 1, Len(unindented) - 1)
                ELSE unindented]

Range(f) == { f[i] : i \in DOMAIN f }

accepted(row) == row[3] = CN /\ check_ipv4(row[1])

accepted_rows == SelectSeq(rows, accepted)

span_key(row) ==
  IF row[1] = row[2] THEN row[1] ELSE row[1] \o <<"-">> \o row[2]

\* A sequence without the repetitions of its elements, first occurrences kept.
RECURSIVE distinct(_)
distinct(seq) ==
  IF seq = <<>> THEN <<>>
  ELSE LET front == distinct(SubSeq(seq, 1, Len(seq) - 1))
       IN IF seq[Len(seq)] \in Range(front) THEN front
          ELSE Append(front, seq[Len(seq)])

render(key_seq) ==
  join(elements_sep, [i \in 1..Len(key_seq) |-> key_seq[i] \o mark_156])

untouched(file) == ~file.exists \/ file.data = << <<"old">> >>

no_nft_io == \A i \in 1..Len(io) : io[i][2] # "chinaip-ipv4.nft"

failed == exit \notin {"running", "0"}

row_1 == <<ip_1_1_1_1, ip_1_1_1_1, CN>>

row_2 == <<ip_2_2_2_2, ip_2_2_2_2, US>>

row_3 == <<ip_3_3_3_0, ip_3_3_3_255, CN>>

\* C1: in a finished run, the entries of the element list are exactly the
\* entries "<key> : 156" of the rows whose country is CN and whose
\* network_first is an IPv4 literal (the key as format_dict leaves it),
\* whatever network_last is.
C1_EntryIffAccepted ==
  pc = "done" =>
    LET entries == Range(entries_of(output_elements))
    IN /\ \A i \in 1..Len(rows) :
            accepted(rows[i]) =>
              normalize(span_key(rows[i])) \o mark_156 \in entries
       /\ \A e \in entries :
            \E i \in 1..Len(rows) :
               /\ accepted(rows[i])
               /\ e = normalize(span_key(rows[i])) \o mark_156

\* A finished run over: valid first with an IPv6 last, IPv6 first with a
\* valid last, a US row.
C1_Witness ==
  /\ pc = "done"
  /\ rows = << <<ip_1_1_1_1, ip6_a, CN>>, <<ip6_a, ip_1_1_1_1, CN>>, row_2 >>
  /\ entries_of(output_elements) = << span_key(rows[1]) \o mark_156 >>

\* C2 as stated: the element list is the accepted rows' range keys, one
\* entry per accepted row, in input order.
C2_Original ==
  pc = "done" =>
    output_elements =
      render([i \in 1..Len(accepted_rows) |-> span_key(accepted_rows[i])])

\* C2 amended: the element list is the normalized range keys of the accepted
\* rows, each key once, in the order of first occurrence.
C2_ElementList ==
  pc = "done" =>
    output_elements =
      render(distinct([i \in 1..Len(accepted_rows) |->
                         normalize(span_key(accepted_rows[i]))]))

\* The spec's three rows, with the first one repeated after them.
C2_Witness ==
  /\ pc = "done"
  /\ rows = <<row_1, row_3, row_1>>
  /\ output_elements =
       <<"1", ".", "1", ".", "1", ".", "1", " ", ":", " ", "1", "5", "6",
         ",", "\n", "\t", "\t",
         "3", ".", "3", ".", "3", ".", "0", "-",
         "3", ".", "3", ".", "3", ".", "2", "5", "5", " ", ":", " ", "1", "5", "6">>

\* C3: a run that failed has not created, opened or written a map file;
\* a map file is touched only by a run that has not failed, and a finished
\* run leaves the whole file: header, map head, one entry per item, end.
C3_AllOrNothing ==
  /\ failed =>
       /\ no_nft_io
       /\ \A p \in Paths : p[2] = "chinaip-ipv4.nft" => untouched(fs[p])
  /\ pc = "done" =>
       /\ exit = "0"
       /\ nft.exists
       /\ nft.data = <<header_1, header_2, map_head,
                       render(keys(chinaip_dict)),
                       <<"\n">>, <<"\t}\n">>, <<"}\n">> >>

\* A run that had accepted a row, then hit a malformed one.
C3_Witness ==
  /\ exit = "TypeError: Expected 3 arguments"
  /\ chinaip_dict # <<>>
  /\ args.dir = <<"o", "u", "t", "/">>
  /\ ~nft.exists

bad_dir == argv.dir # <<>> /\ ~isdir(argv.dir)

\* C4 as stated: the run has performed no network or file operation when it
\* ends on the output directory check.
C4_Original ==
  exit = "Specified output directory does not exist or is not a directory"
    => io = <<>>

\* C4 amended: with a bad --output-dir the run never gets past the directory
\* check, ends non-zero, and performs no network operation and no creation,
\* write or removal of a file; the one operation that can come first is
\* argument parsing opening --file-address for reading.
C4_BadDirectory ==
  bad_dir =>
    /\ pc \in {"parse_args", "check_dir", "exit"}
    /\ pc = "exit" => failed
    /\ \A i \in 1..Len(io) :
          io[i] \in { <<"open_r", "file-address">>,
                      <<"open_r_failed", "file-address">> }
    /\ fs = fs0
    /\ response = no_response

C4_Witness ==
  /\ exit = "Specified output directory does not exist or is not a directory"
  /\ argv.download
  /\ argv.file = "exists"
  /\ io = << <<"open_r", "file-address">> >>

long_row(row) == Len(row) > 3

\* C5 as stated: a row of more than three columns does not make the run
\* fail, and is processed by its first three columns.
C5_Original ==
  \A i \in 1..Len(rows) :
     long_row(rows[i]) =>
       /\ ~failed
       /\ (accepted(rows[i]) /\ pc = "make_chinaip_dict")
            => has_key(chinaip_dict, span_key(rows[i]))

\* C5 amended: a row of more than three columns is fatal: the run ends on
\* it with a TypeError, it is the last row read, it adds nothing to the
\* mapping and no map file is written.
C5_LongRowFatal ==
  \A i \in 1..Len(rows) :
     long_row(rows[i]) =>
       /\ i = Len(rows)
       /\ pc = "exit"
       /\ exit = "TypeError: Expected 3 arguments"
       /\ Len(chinaip_dict) <= Len(SelectSeq(SubSeq(rows, 1, i - 1),
                                             LAMBDA r : Len(r) = 3 /\ accepted(r)))
       /\ no_nft_io

C5_Witness ==
  /\ Len(rows) = 2
  /\ rows[1] = row_1
  /\ long_row(rows[2])
  /\ exit = "TypeError: Expected 3 arguments"
  /\ keys(chinaip_dict) = <<ip_1_1_1_1>>

\* C6: with --download the rows are only ever read from the downloaded
\* dbip.csv, after a 200 response, also when --file-address was given; any
\* other response ends the run before a row is read.
C6_DownloadWins ==
  argv.download =>
    /\ (rows # <<>> \/ pc \in {"make_chinaip_dict", "format_dict", "write_chinaips",
                               "write_nft_header", "write_elements", "write_end", "done"})
         => /\ args.blocks = "dbip.csv"
            /\ response.status_code = 200
            /\ fs[path("dbip.csv")] = [exists |-> TRUE, data |-> <<"csv">>]
    /\ response.status_code \notin {0, 200}
         => /\ rows = <<>>
            /\ pc \in {"status_code", "exit"}
            /\ pc = "exit" =>
                 exit = "Error trying to download DB-IP lite geoip csv file. Bailing out..."

C6_Witness ==
  /\ argv.download
  /\ argv.file = "exists"
  /\ pc = "done"
  /\ Len(rows) >= 1

\* C7 as stated: format_dict applied to its own result gives that result
\* again (same items, same order, no exit).
C7_Idempotent ==
  Len(fd_out) = 2 => fd_out[2] = fd_out[1]

Stage(p) ==
  CASE p \in {"parse_args", "check_dir"} -> 1
    [] p \in {"download", "status_code", "gunzip", "reopen", "check_blocks"} -> 2
    [] p = "make_chinaip_dict" -> 3
    [] p = "format_dict" -> 4
    [] p \in {"write_chinaips", "write_nft_header", "write_elements", "write_end"} -> 5
    [] p \in {"done", "exit"} -> 6

Position(p) ==
  CASE p = "parse_args" -> 1 [] p = "check_dir" -> 2 [] p = "download" -> 3
    [] p = "status_code" -> 4 [] p = "gunzip" -> 5 [] p = "reopen" -> 6
    [] p = "check_blocks" -> 7 [] p = "make_chinaip_dict" -> 8
    [] p = "format_dict" -> 9 [] p = "write_chinaips" -> 10
    [] p = "write_nft_header" -> 11 [] p = "write_elements" -> 12
    [] p = "write_end" -> 13 [] p \in {"done", "exit"} -> 14

\* C8: a run never goes back to an earlier stage or to an earlier step (the
\* one repeated step is the loop over the rows, which reads on), nothing
\* follows a terminal state, success is the state "done" with status 0, and
\* every run ends in a terminal state.
C8_LinearRun ==
  /\ [][/\ Stage(pc') >= Stage(pc)
        /\ \/ Position(pc') > Position(pc)
           \/ /\ pc = "make_chinaip_dict"
              /\ pc' = pc
              /\ Len(rows') = Len(rows) + 1
        /\ pc \notin {"done", "exit"}]_vars
  /\ [](pc = "done" <=> exit = "0")
  /\ [](pc = "exit" <=> failed)
  /\ <>(pc \in {"done", "exit"})

C8_Witness ==
  /\ pc = "done"
  /\ argv.download
  /\ Len(rows) = 2
  /\ Len(chinaip_dict) = 2

\* C9 as stated: the finished element list has one entry per distinct
\* (network_first, network_last) of the accepted rows, and no entry twice.
C9_KeyPerSpan ==
  pc = "done" =>
    LET entries == entries_of(output_elements)
        spans == { <<accepted_rows[i][1], accepted_rows[i][2]>> :
                      i \in 1..Len(accepted_rows) }
    IN /\ Len(entries) = Cardinality(spans)
       /\ \A i, j \in 1..Len(entries) : i # j => entries[i] # entries[j]

\* C10: no run ends on format_dict's empty-string exit: the dict that
\* reaches format_dict has no empty key and no empty value.
C10_NoEmptyString ==
  /\ exit # "BUG: There is an empty string as key or value inside a dictionary"
  /\ pc \in {"make_chinaip_dict", "format_dict"} =>
       \A i \in 1..Len(chinaip_dict) :
          chinaip_dict[i][1] # <<>> /\ chinaip_dict[i][2] # <<>>

\* format_dict has returned for a CSV with a CN row of empty addresses.
C10_Witness ==
  /\ pc = "write_chinaips"
  /\ rows = << <<<<>>, <<>>, CN>>, row_1 >>
  /\ Len(chinaip_dict) = 1

====
